---------------------------- MODULE Spec2Model ----------------------------
(***************************************************************************)
(* Orders-map dashboard (monday.com -> Streamlit/folium).                  *)
(*                                                                         *)
(* Two variants of the same script are modelled side by side:              *)
(*   "A" = src/streamlit_app.py                (no cache, Policy A rows)   *)
(*   "B" = src/streamlit_map_dashboard/app.py  (st.cache_data, Policy B)   *)
(*                                                                         *)
(* SpecFetch  : script runs, the pagination loop, the fetch cache.         *)
(* SpecParse  : parse_location and order-value extraction (pure).         *)
(* SpecFilter : filter controls, filtering and the render pass.            *)
(* SpecSelect : nearest-marker lookup of variant A.                        *)
(***************************************************************************)
EXTENDS Integers, Sequences, FiniteSets, TLC

VARIABLES
    variant,     \* "A" or "B": which script is running
    creds,       \* token and board id are configured
    pc,          \* position of the script run
    trigger,     \* what started the current script run
    cursor,      \* the loop's cursor variable
    items,       \* A: items / B: rows, collected so far by the loop
    requests,    \* cursors carried by the page requests of this run, in order
    responses,   \* responses received to them, in order
    cache,       \* B: st.cache_data entry of fetch_items for the configured
                 \* (board id, token, wanted ids), which stay fixed
    shown,       \* what the run has put on the page
    \* --- the normalizer (SpecParse)
    task,        \* "location" or "value": the field being normalized
    raw_value,   \* the location column's JSON value
    raw_text,    \* the column's display text
    result,      \* what the normalizer returned
    \* --- the render pass (SpecFilter)
    df,          \* the table
    controls,    \* the values the filter widgets hold
    fdf,         \* A: filtered / B: fdf, as indices into df
    page,        \* what the render pass displayed
    \* --- the details panel (SpecSelect)
    filtered,    \* the filtered table the map was drawn from
    click,       \* out["last_object_clicked"]
    selected     \* the row shown in the details panel

fetchVars == <<creds, trigger, cursor, items, requests, responses, cache, shown>>
parseVars == <<task, raw_value, raw_text, result>>
filterVars == <<df, controls, fdf, page>>
selectVars == <<filtered, click, selected>>
vars == <<variant, pc, fetchVars, parseVars, filterVars, selectVars>>

-----------------------------------------------------------------------------
(* Bounds *)
MaxPages == 3          \* page requests of one fetch
MaxPageItems == 2      \* items of one page

(* Program constants *)
TTL == 60              \* st.cache_data(ttl=60)
TickSeconds == 20      \* granularity of the clock

Variants == {"A", "B"}
None == "<None>"                           \* Python None / JSON null
NonEmptyCursors == {"c1", "c2"}
FinalCursors == {None, ""}                 \* absent or empty cursor
NoEntry == [table |-> <<>>, age |-> -1]    \* nothing cached under the key

Outcomes == {"ok", "transport_error", "http_error", "errors_only", "errors_with_data"}
DataOutcomes == {"ok", "errors_with_data"}

RECURSIVE Concat(_)
Concat(ss) == IF ss = <<>> THEN <<>> ELSE Head(ss) \o Concat(Tail(ss))

\* The items of page k of the current fetch, n of them, in in-page order.
PageItems(k, n) == [i \in 1..n |-> [page |-> k, idx |-> i]]

\* A page response of the remote API.
Response(o, c, k, n) ==
    IF o \in DataOutcomes
    THEN [outcome |-> o, cursor |-> c, items |-> PageItems(k, n)]
    ELSE [outcome |-> o, cursor |-> None, items |-> <<>>]

-----------------------------------------------------------------------------
(* Transport layer *)

\* monday(): raise_for_status, then `if "errors" in data: raise`.
MondayRaisesA(resp) == resp.outcome # "ok"

\* fetch_items: requests.post / raise_for_status / data["data"][...] lookups.
\* The transport error and the bad status raise; a body without "data"
\* raises KeyError; "errors" itself is never looked at.
FetchRaisesB(resp) == resp.outcome \in {"transport_error", "http_error", "errors_only"}

Raises(v, resp) == IF v = "A" THEN MondayRaisesA(resp) ELSE FetchRaisesB(resp)

\* A loop that stops on an absent cursor only and asks again after "".
NotCursorNoneOnly(c) == c = None

\* `if not cursor: break`
NotCursor(c) == c \in FinalCursors

\* items.extend(page["items"]) / rows.append(row) for it in items
Extend(acc, pageItems) == acc \o pageItems

\* st.cache_data: an entry is served while younger than the ttl.
CacheHit(e) == e # NoEntry /\ e.age < TTL

-----------------------------------------------------------------------------
(* Script runs *)

Unset == [t |-> "unset"]

FetchIdle ==
    /\ creds = TRUE /\ trigger = "load" /\ cursor = None /\ items = <<>>
    /\ requests = <<>> /\ responses = <<>>
    /\ cache = [table |-> <<>>, age |-> -1]
    /\ shown = [kind |-> "nothing", table |-> <<>>, button |-> FALSE]
ParseIdle == task = "none" /\ raw_value = Unset /\ raw_text = Unset /\ result = Unset
FilterIdle == df = <<>> /\ controls = Unset /\ fdf = <<>> /\ page = Unset
SelectIdle == filtered = <<>> /\ click = Unset /\ selected = Unset

InitFetch ==
    /\ variant \in Variants
    /\ creds \in BOOLEAN
    /\ pc = "start"
    /\ trigger = "load"
    /\ cursor = None
    /\ items = <<>>
    /\ requests = <<>>
    /\ responses = <<>>
    /\ cache = NoEntry
    /\ shown = [kind |-> "nothing", table |-> <<>>, button |-> FALSE]
    /\ ParseIdle /\ FilterIdle /\ SelectIdle

\* A, lines 30-40: the column query goes through monday(); int(BOARD_ID)
\* and the request both fail without configuration.
ResolveColumns ==
    /\ variant = "A" /\ pc = "start"
    /\ \E o \in Outcomes :
         LET resp == Response(o, None, 0, 0) IN
         IF ~creds \/ MondayRaisesA(resp)
         THEN /\ pc' = "failed"
              /\ shown' = [kind |-> "exception", table |-> <<>>, button |-> FALSE]
         ELSE /\ pc' = "loop"
              /\ shown' = [kind |-> "nothing", table |-> <<>>, button |-> FALSE]
    /\ cursor' = None /\ items' = <<>>
    /\ UNCHANGED <<variant, creds, trigger, requests, responses, cache>>
    /\ UNCHANGED <<parseVars, filterVars, selectVars>>

\* B, line 179 with the decorator of line 60: a hit returns the stored
\* frame, a miss runs the body (its early return included).
FetchItemsCall ==
    /\ variant = "B" /\ pc = "start"
    /\ IF CacheHit(cache)
       THEN /\ items' = cache.table
            /\ pc' = "fetched"
            /\ UNCHANGED cache
       ELSE /\ items' = <<>>
            /\ IF creds
               THEN pc' = "loop" /\ cache' = NoEntry
               ELSE /\ pc' = "fetched"
                    /\ cache' = [table |-> <<>>, age |-> 0]
    /\ cursor' = None
    /\ UNCHANGED <<variant, creds, trigger, requests, responses, shown>>
    /\ UNCHANGED <<parseVars, filterVars, selectVars>>

\* One iteration of `while True:` (A lines 45-61, B lines 73-150).
FetchPage ==
    /\ pc = "loop"
    /\ Len(requests) < MaxPages
    /\ \E o \in Outcomes, c \in NonEmptyCursors \cup FinalCursors, n \in 0..MaxPageItems :
         LET k == Len(requests) + 1
             resp == Response(o, c, k, n)
         IN
         /\ (k = MaxPages /\ o \in DataOutcomes) => c \in FinalCursors
         /\ resp.outcome \in DataOutcomes \/ (c = None /\ n = 0)
         /\ requests' = Append(requests, cursor)
         /\ responses' = Append(responses, resp)
         /\ IF Raises(variant, resp)
            THEN /\ pc' = "failed"
                 /\ shown' = [kind |-> "exception", table |-> <<>>, button |-> FALSE]
                 /\ UNCHANGED <<cursor, items>>
            ELSE /\ items' = Extend(items, resp.items)
                 /\ cursor' = resp.cursor
                 /\ pc' = IF NotCursor(resp.cursor) THEN "fetched" ELSE "loop"
                 /\ UNCHANGED shown
    /\ UNCHANGED <<variant, creds, trigger, cache>>
    /\ UNCHANGED <<parseVars, filterVars, selectVars>>

\* The rest of the run: A builds df from items (lines 80-113), B's
\* fetch_items returns df, which the decorator stores, and the page renders.
\* anyMappable: whether Policy A keeps at least one of the items.
Render ==
    /\ pc = "fetched"
    /\ \E anyMappable \in BOOLEAN :
         /\ (items = <<>> \/ variant = "B") => ~anyMappable
         /\ shown' = [kind |-> "table", table |-> items,
                      button |-> (variant = "A" /\ anyMappable)]
    /\ cache' = IF variant = "B" /\ requests # <<>>
                THEN [table |-> items, age |-> 0]
                ELSE cache
    /\ pc' = "rendered"
    /\ UNCHANGED <<variant, creds, trigger, cursor, items, requests, responses>>
    /\ UNCHANGED <<parseVars, filterVars, selectVars>>

Rerun(t) ==
    /\ pc' = "start"
    /\ trigger' = t
    /\ requests' = <<>>
    /\ responses' = <<>>
    /\ cursor' = None
    /\ items' = <<>>
    /\ shown' = [kind |-> "nothing", table |-> <<>>, button |-> FALSE]
    /\ UNCHANGED <<variant, creds, cache>>
    /\ UNCHANGED <<parseVars, filterVars, selectVars>>

\* A line 113: `if st.button("Refresh now"): st.rerun()`
RefreshNow ==
    /\ variant = "A" /\ pc = "rendered" /\ shown.button
    /\ Rerun("refresh")

\* B line 292: "Refresh the page to fetch the latest data."  Reloading the
\* page reruns the script in the same server process.
ReloadPage ==
    /\ pc \in {"rendered", "failed"}
    /\ Rerun("refresh")

\* Any other widget interaction reruns the script from the top.
Interact ==
    /\ pc = "rendered"
    /\ Rerun("interaction")

\* Time passes between runs; ages stop counting once an entry has expired.
Tick ==
    /\ pc \in {"rendered", "failed"}
    /\ cache # NoEntry /\ cache.age < TTL
    /\ cache' = [cache EXCEPT !.age = @ + TickSeconds]
    /\ UNCHANGED <<variant, creds, pc, trigger, cursor, items, requests,
                   responses, shown>>
    /\ UNCHANGED <<parseVars, filterVars, selectVars>>

NextFetch ==
    \/ ResolveColumns
    \/ FetchItemsCall
    \/ FetchPage
    \/ Render
    \/ RefreshNow
    \/ ReloadPage
    \/ Interact
    \/ Tick

SpecFetch == InitFetch /\ [][NextFetch]_vars

-----------------------------------------------------------------------------
(* Claims about the fetch *)

AllPagesOk == \A k \in 1..Len(responses) : responses[k].outcome = "ok"
AllItems == Concat([k \in 1..Len(responses) |-> responses[k].items])

\* C1: when pages 1..N-1 return a non-empty cursor and page N an empty or
\* absent one, the loop issues exactly N page requests and stops; the first
\* request carries no cursor, request k+1 carries the cursor of response k,
\* and the collected items are the pages' items in page order then in-page
\* order, none dropped or duplicated.
C1_PaginationCollectsAllPages ==
    (requests # <<>> /\ AllPagesOk) =>
        LET N == Len(requests) IN
        /\ Len(responses) = N
        /\ requests[1] = None
        /\ \A k \in 1..(N - 1) :
               /\ responses[k].cursor \in NonEmptyCursors
               /\ requests[k + 1] = responses[k].cursor
        /\ items = AllItems
        /\ IF responses[N].cursor \in FinalCursors
           THEN pc \in {"fetched", "rendered"}
           ELSE pc = "loop" /\ cursor = responses[N].cursor

\* C1 witness: a three-page fetch has ended, its two continuation cursors
\* differ, and a page held two items.
C1_ThreePagesFetched ==
    /\ pc = "fetched" /\ AllPagesOk /\ Len(requests) = 3
    /\ requests[2] # requests[3]
    /\ Len(responses[2].items) = 2 /\ Len(items) >= 4

\* C2: a page request ending in a transport error, a non-success status or
\* a response with an error list ends the fetch as a failure: the run shows
\* a failure and no table, whatever the position of the page.
C2_BadPageFailsTheFetch ==
    (\E k \in 1..Len(responses) : responses[k].outcome # "ok") =>
        pc = "failed" /\ shown.kind = "exception"

\* C3: the run a manual refresh starts builds its table from page requests
\* of its own, never from a cache entry stored before the refresh.
C3_RefreshBypassesCache ==
    (creds /\ trigger = "refresh" /\ pc = "rendered") => requests # <<>>

-----------------------------------------------------------------------------
(* The field normalizer: texts are sequences of characters, Python values   *)
(* are tagged records, floats are integers scaled by 10^Scale.              *)

MaxTextLen == 5        \* characters of a display text

Scale == MaxTextLen    \* decimal places kept by the scaled floats

NoneV == [t |-> "none"]                 \* None / NaN: the value is absent
Num(x) == [t |-> "float", v |-> x]
Str(s) == [t |-> "str", s |-> s]
Raised == [t |-> "raise"]               \* the call raised
Missing == [t |-> "missing"]            \* the mapping has no such key
Invalid == [t |-> "invalid"]            \* a value text that is not JSON
Scalar == [t |-> "scalar"]              \* JSON, but not an object
Dict(la, ln, ad) == [t |-> "dict", lat |-> la, lng |-> ln, address |-> ad]

Digits == {"0", "1", "2", "5"}
DigitVal(c) == CASE c = "0" -> 0 [] c = "1" -> 1 [] c = "2" -> 2 [] c = "5" -> 5

RECURSIVE Pow10(_)
Pow10(n) == IF n <= 0 THEN 1 ELSE 10 * Pow10(n - 1)

RECURSIVE DigitsToInt(_)
DigitsToInt(ds) ==
    IF ds = <<>> THEN 0
    ELSE 10 * DigitsToInt(SubSeq(ds, 1, Len(ds) - 1)) + DigitVal(ds[Len(ds)])

\* s.find(ch) + 1: the first position of ch, 0 when there is none.
IndexOf(s, ch) ==
    IF \E i \in DOMAIN s : s[i] = ch
    THEN CHOOSE i \in DOMAIN s : s[i] = ch /\ \A j \in 1..(i - 1) : s[j] # ch
    ELSE 0

\* s.replace(ch, "")
Remove(s, ch) == SelectSeq(s, LAMBDA c : c # ch)

\* s.strip()
RECURSIVE LStrip(_)
LStrip(s) == IF s # <<>> /\ Head(s) = " " THEN LStrip(Tail(s)) ELSE s
RECURSIVE RStrip(_)
RStrip(s) == IF s # <<>> /\ s[Len(s)] = " " THEN RStrip(SubSeq(s, 1, Len(s) - 1)) ELSE s
Strip(s) == RStrip(LStrip(s))

\* float(s) on a string: surrounding blanks, an optional sign, digits with
\* at most one point and at least one digit; anything else raises.
ParseFloat(s) ==
    LET t == Strip(s)
        neg == t # <<>> /\ Head(t) = "-"
        b == IF neg THEN Tail(t) ELSE t
        dot == IndexOf(b, ".")
        ip == IF dot = 0 THEN b ELSE SubSeq(b, 1, dot - 1)
        fp == IF dot = 0 THEN <<>> ELSE SubSeq(b, dot + 1, Len(b))
        ok == /\ \A i \in DOMAIN ip : ip[i] \in Digits
              /\ \A i \in DOMAIN fp : fp[i] \in Digits
              /\ Len(ip) + Len(fp) >= 1
        mag == DigitsToInt(ip) * Pow10(Scale) + DigitsToInt(fp) * Pow10(Scale - Len(fp))
    IN IF ok THEN Num(IF neg THEN 0 - mag ELSE mag) ELSE Raised

\* float(x) on a JSON value: a number, a string, or null (TypeError).
FloatOf(x) ==
    CASE x.t = "float" -> x
      [] x.t = "str" -> ParseFloat(x.s)
      [] OTHER -> Raised

\* s.split(",", 1) of a text that holds a comma
SplitFirst(s) ==
    LET i == IndexOf(s, ",") IN <<SubSeq(s, 1, i - 1), SubSeq(s, i + 1, Len(s))>>

\* s.split(",")
RECURSIVE Split(_)
Split(s) ==
    LET i == IndexOf(s, ",") IN
    IF i = 0 THEN <<s>>
    ELSE <<SubSeq(s, 1, i - 1)>> \o Split(SubSeq(s, i + 1, Len(s)))

Coords(la, ln, ad) == [lat |-> la, lng |-> ln, address |-> ad]

HasLatLng(j) == j.t = "dict" /\ j.lat # Missing /\ j.lng # Missing

\* A, parse_location(raw_value, raw_text), lines 63-78.
ParseLocationTextA(text) ==
    IF text.t = "str" /\ IndexOf(text.s, ",") # 0
    THEN LET parts == SplitFirst(text.s)
             la == ParseFloat(Strip(parts[1]))
             ln == ParseFloat(Strip(parts[2]))
         IN IF la = Raised \/ ln = Raised
            THEN Coords(NoneV, NoneV, Str(<<>>))
            ELSE Coords(la, ln, Str(<<>>))
    ELSE Coords(NoneV, NoneV, Str(<<>>))

ParseLocationFuncA(value, text) ==
    IF HasLatLng(value) /\ FloatOf(value.lat) # Raised /\ FloatOf(value.lng) # Raised
    THEN Coords(FloatOf(value.lat), FloatOf(value.lng),
                IF value.address = Missing THEN Str(<<>>) ELSE value.address)
    ELSE ParseLocationTextA(text)

\* B, _cv_to_dict, lines 36-46: json.loads, the raw text kept when it fails.
CvToDict(value) == IF value = Invalid THEN Str(<<"?">>) ELSE value

\* B, parse_location(value_obj, text_fallback), lines 48-58.
ParseLocationFuncB(value_obj, text) ==
    IF HasLatLng(value_obj)
    THEN Coords(value_obj.lat, value_obj.lng,
                IF value_obj.address = Missing THEN NoneV ELSE value_obj.address)
    ELSE IF text.t = "str" /\ IndexOf(text.s, ",") # 0
         THEN LET parts == Split(text.s)
                  la == ParseFloat(Strip(parts[1]))
                  ln == ParseFloat(Strip(parts[2]))
              IN IF la = Raised \/ ln = Raised
                 THEN Coords(NoneV, NoneV, NoneV)
                 ELSE Coords(la, ln, NoneV)
         ELSE Coords(NoneV, NoneV, NoneV)

\* A, lines 84-86: (text or "").replace("$","").replace(",","").strip(),
\* then float() under try/except.
OrderValueFuncA(text) ==
    LET val_txt == Strip(Remove(Remove(IF text.t = "str" THEN text.s ELSE <<>>, "$"), ","))
    IN IF val_txt = <<>> THEN NoneV
       ELSE IF ParseFloat(val_txt) = Raised THEN NoneV ELSE ParseFloat(val_txt)

\* .str.extract(r'([\d\.]+)')[0]: the first run of digits and points.
IsNumChar(c) == c \in Digits \cup {"."}
RECURSIVE TakeNum(_)
TakeNum(s) == IF s # <<>> /\ IsNumChar(Head(s)) THEN <<Head(s)>> \o TakeNum(Tail(s)) ELSE <<>>
RECURSIVE FirstNumericRun(_)
FirstNumericRun(s) ==
    IF s = <<>> THEN <<>>
    ELSE IF IsNumChar(Head(s)) THEN TakeNum(s) ELSE FirstNumericRun(Tail(s))

\* B, line 155: pd.to_numeric(text.replace(",","") -> extract, errors="coerce").
OrderValueFuncB(text) ==
    IF text.t # "str" THEN NoneV
    ELSE LET run == FirstNumericRun(Remove(text.s, ","))
         IN IF run = <<>> \/ ParseFloat(run) = Raised THEN NoneV ELSE ParseFloat(run)

-----------------------------------------------------------------------------
(* SpecParse: the normalizer applied to every bounded input *)

LocChars == {"1", ",", " ", "x", "."}
ValChars == {"$", ",", "1", "0", ".", "-", " ", "x"}
TextsOver(A) == UNION {[1..n -> A] : n \in 0..MaxTextLen}

LatValues == {Missing, Num(40 * Pow10(Scale)), Str(<<"1">>), Str(<<"x">>)}
LngValues == {Missing, Num(0 - 73 * Pow10(Scale)), Str(<<"x">>)}
AddressValues == {Missing, Str(<<"a">>)}
StructuredValues ==
    {NoneV, Invalid, Scalar}
        \cup {Dict(la, ln, ad) : la \in LatValues, ln \in LngValues, ad \in AddressValues}

InitParse ==
    /\ variant \in Variants
    /\ pc = "input"
    /\ task \in {"location", "value"}
    /\ IF task = "location"
       THEN /\ raw_value \in StructuredValues
            /\ raw_text \in {NoneV} \cup {Str(s) : s \in TextsOver(LocChars)}
       ELSE /\ raw_value = NoneV
            /\ raw_text \in {NoneV} \cup {Str(s) : s \in TextsOver(ValChars)}
    /\ result = Unset
    /\ FetchIdle /\ FilterIdle /\ SelectIdle

Parsed(r) ==
    /\ pc = "input"
    /\ result' = r
    /\ pc' = "done"
    /\ UNCHANGED <<variant, task, raw_value, raw_text>>
    /\ UNCHANGED <<fetchVars, filterVars, selectVars>>

\* A lines 88-91
ParseLocationA ==
    variant = "A" /\ task = "location" /\ Parsed(ParseLocationFuncA(raw_value, raw_text))

\* B lines 103-106
ParseLocationB ==
    variant = "B" /\ task = "location"
        /\ Parsed(ParseLocationFuncB(CvToDict(raw_value), raw_text))

OrderValueA == variant = "A" /\ task = "value" /\ Parsed(OrderValueFuncA(raw_text))

OrderValueB == variant = "B" /\ task = "value" /\ Parsed(OrderValueFuncB(raw_text))

NextParse == ParseLocationA \/ ParseLocationB \/ OrderValueA \/ OrderValueB

SpecParse == InitParse /\ [][NextParse]_vars

-----------------------------------------------------------------------------
(* Claims about the normalizer *)

\* The cascade as the claim states it.
TextCoordsFirstComma(text) ==
    IF text.t = "str" /\ IndexOf(text.s, ",") # 0
    THEN LET parts == SplitFirst(text.s)
             la == ParseFloat(Strip(parts[1]))
             ln == ParseFloat(Strip(parts[2]))
         IN IF la = Raised \/ ln = Raised THEN <<NoneV, NoneV>> ELSE <<la, ln>>
    ELSE <<NoneV, NoneV>>

\* C4: parse_location never raises and returns (1) the mapping's lat and lng
\* as floats (and its address) when the structured value has both keys,
\* (2) otherwise the two floats around the FIRST comma of the text, absent
\* when either part fails to parse, (3) otherwise nothing; in both variants.
C4_ParseLocationCascade ==
    (task = "location" /\ pc = "done") =>
        /\ result # Raised
        /\ IF HasLatLng(raw_value)
           THEN (FloatOf(raw_value.lat) # Raised /\ FloatOf(raw_value.lng) # Raised) =>
                    /\ result.lat = FloatOf(raw_value.lat)
                    /\ result.lng = FloatOf(raw_value.lng)
                    /\ raw_value.address # Missing => result.address = raw_value.address
           ELSE <<result.lat, result.lng>> = TextCoordsFirstComma(raw_text)

\* C5: order-value extraction never raises; with every "$" and "," removed
\* and the rest stripped, an empty rest gives no value, a rest that parses
\* gives exactly that number (sign and decimals kept) in both variants, and
\* a rest that does not parse gives no value in the direct-parse variant.
C5_OrderValueIsDirectParse ==
    (task = "value" /\ pc = "done") =>
        LET rest == Strip(Remove(Remove(IF raw_text.t = "str" THEN raw_text.s ELSE <<>>, "$"), ","))
        IN /\ result # Raised
           /\ rest = <<>> => result = NoneV
           /\ (rest # <<>> /\ ParseFloat(rest) # Raised) => result = ParseFloat(rest)
           /\ (rest # <<>> /\ ParseFloat(rest) = Raised /\ variant = "A") => result = NoneV

-----------------------------------------------------------------------------
(* The table and the filters.  Order values are counted in halves (41 is    *)
(* 20.5), dates are day numbers, optional fields are NoneV when absent.     *)

MaxRows == 3           \* rows of the table
MaxMoved == 2          \* widgets away from their defaults at a time

Row(nm, cu, st, da, va, la) ==
    [name |-> nm, customer |-> cu, status |-> st, date |-> da, val |-> va, hasLat |-> la]

\* Rows variant A can hold: Policy A keeps rows with coordinates and a
\* numeric value only; Status and Order Date are detail texts.
PoolA ==
    { Row(Str(<<"a">>), NoneV, Str(<<"D">>), NoneV, Num(20), TRUE),
      Row(Str(<<"B">>), Str(<<"a", "b">>), Str(<<"O">>), NoneV, Num(100), TRUE),
      Row(Str(<<"b">>), Str(<<"c">>), NoneV, NoneV, Num(400), TRUE),
      Row(Str(<<"c">>), NoneV, Str(<<"D">>), NoneV, Num(41), TRUE),
      Row(Str(<<"a", "c">>), NoneV, NoneV, NoneV, Num(0 - 11), TRUE) }

\* Rows variant B can hold: every item, order_value_num never negative
\* (the extracted run has no sign), any field possibly absent.
PoolB ==
    { Row(Str(<<"a">>), NoneV, Str(<<"D">>), Num(1), Num(20), TRUE),
      Row(Str(<<"B">>), Str(<<"a", "b">>), NoneV, Num(1), Num(100), TRUE),
      Row(Str(<<"b">>), Str(<<"c">>), Str(<<"O">>), NoneV, Num(400), TRUE),
      Row(Str(<<"c">>), NoneV, Str(<<"D">>), Num(2), NoneV, FALSE) }

Pool(v) == IF v = "A" THEN PoolA ELSE PoolB
Tables(v) == UNION {[1..n -> Pool(v)] : n \in 0..MaxRows}

SliderStops == {40, 200}                     \* 20 and 100 on the value slider
Queries == {<<>>, <<"a">>, <<"B">>, <<"z">>}   \* what the user types
Dates == {1, 2}

\* str(x).lower()
LowerChar(c) ==
    CASE c = "B" -> "b" [] c = "D" -> "d" [] c = "O" -> "o" [] c = "N" -> "n" [] OTHER -> c
Lower(s) == [i \in DOMAIN s |-> LowerChar(s[i])]
TextOf(x) == IF x = NoneV THEN <<"N", "o", "n", "e">> ELSE x.s

\* `sub in s`
Contains(sub, s) ==
    \E i \in 1..(Len(s) - Len(sub) + 1) : SubSeq(s, i, i + Len(sub) - 1) = sub

Indices(d) == [i \in 1..Len(d) |-> i]
Valued(d) == {i \in 1..Len(d) : d[i].val # NoneV}
Dated(d) == {i \in 1..Len(d) : d[i].date # NoneV}
MinOf(S) == CHOOSE x \in S : \A y \in S : x <= y
MaxOf(S) == CHOOSE x \in S : \A y \in S : x >= y
MinVal(d) == MinOf({d[i].val.v : i \in Valued(d)})
MaxVal(d) == MaxOf({d[i].val.v : i \in Valued(d)})

\* int(x): truncation toward zero, of a value counted in halves.
Truncate(x) == IF x >= 0 THEN (x \div 2) * 2 ELSE 0 - (((0 - x) \div 2) * 2)

\* A, line 109: lo, hi = int(min), int(max)
SliderLoA(d) == Truncate(MinVal(d))
SliderHiA(d) == Truncate(MaxVal(d))

\* B, line 202: max_value=max(mx, 1.0); line 204 without numeric values.
SliderHiB(d) ==
    IF Valued(d) # {} THEN (IF MaxVal(d) > 2 THEN MaxVal(d) ELSE 2) ELSE 1999999998

\* B, line 208: sorted(df["status"].dropna().unique())
StatusOptions(d) == {d[i].status : i \in {j \in 1..Len(d) : d[j].status # NoneV}}

NoDates == [t |-> "none"]
DateRange(a, b) == [t |-> "range", start |-> a, end |-> b]
DateSingle(a) == [t |-> "single", start |-> a]

Controls(lo, hi, sel, dr, qq) ==
    [vmin |-> lo, vmax |-> hi, status_sel |-> sel, date_range |-> dr, q |-> qq]

\* The values the widgets take before the user touches them
\* (A lines 110 and 115; B lines 202-204, 209, 213-217 and 221).
DefaultControls(v, d) ==
    IF v = "A"
    THEN Controls(SliderLoA(d), SliderHiA(d), {}, NoDates, <<>>)
    ELSE Controls(0, SliderHiB(d), StatusOptions(d),
                  IF Dated(d) # {}
                  THEN DateRange(MinOf({d[i].date.v : i \in Dated(d)}),
                                 MaxOf({d[i].date.v : i \in Dated(d)}))
                  ELSE NoDates,
                  <<>>)

\* The values the user can bring each widget to.
ValueChoices(lo, hi) == {lo, hi} \cup {x \in SliderStops : lo <= x /\ x <= hi}
ValuePairs(v, d) ==
    LET lo == IF v = "A" THEN SliderLoA(d) ELSE 0
        hi == IF v = "A" THEN SliderHiA(d) ELSE SliderHiB(d)
    IN IF v = "B" /\ Valued(d) = {}
       THEN {<<lo, hi>>}
       ELSE {<<a, b>> \in ValueChoices(lo, hi) \X ValueChoices(lo, hi) : a <= b}
StatusChoices(v, d) == IF v = "A" THEN {{}} ELSE SUBSET StatusOptions(d)
DateChoices(v, d) ==
    IF v = "B" /\ Dated(d) # {}
    THEN {DateRange(p[1], p[2]) : p \in {pp \in Dates \X Dates : pp[1] <= pp[2]}}
            \cup {DateSingle(x) : x \in Dates}
    ELSE {NoDates}
QueryChoices(v) == IF v = "A" THEN Queries ELSE {Lower(qq) : qq \in Queries}

\* The widgets that are away from their defaults.
Moved(v, d, c) ==
    LET dc == DefaultControls(v, d) IN
    (IF <<c.vmin, c.vmax>> # <<dc.vmin, dc.vmax>> THEN {"value"} ELSE {})
        \cup (IF c.status_sel # dc.status_sel THEN {"status"} ELSE {})
        \cup (IF c.date_range # dc.date_range THEN {"date"} ELSE {})
        \cup (IF c.q # dc.q THEN {"q"} ELSE {})

\* The control values one change of one widget leads to.
Moves(v, d, c) ==
    ({[c EXCEPT !.vmin = p[1], !.vmax = p[2]] : p \in ValuePairs(v, d)}
        \cup {[c EXCEPT !.status_sel = x] : x \in StatusChoices(v, d)}
        \cup {[c EXCEPT !.date_range = x] : x \in DateChoices(v, d)}
        \cup {[c EXCEPT !.q = x] : x \in QueryChoices(v)}) \ {c}

\* The range test that lets the upper bound out.
InValueRangeOpen(x, c) == x >= c.vmin /\ x < c.vmax

\* (value >= vmin) & (value <= vmax)
InValueRange(x, c) == x >= c.vmin /\ x <= c.vmax

\* A status test that lets rows without a status through.
KeepStatusOrAbsent(r, sel) == r.status \in sel \/ r.status = NoneV

\* out["status"].isin(status_sel)
KeepStatus(r, sel) == r.status \in sel

\* (date_parsed >= start) & (date_parsed <= end); NaT compares False.
KeepDate(r, dr) == r.date # NoneV /\ r.date.v >= dr.start /\ r.date.v <= dr.end

\* A, line 120
MatchA(r, qq) ==
    \/ Contains(Lower(qq), Lower(TextOf(r.name)))
    \/ \E x \in {r.customer, r.status, r.date} : Contains(Lower(qq), Lower(TextOf(x)))

\* B, lines 235-239
MatchB(r, qq) ==
    \/ Contains(qq, Lower(TextOf(r.customer)))
    \/ Contains(qq, Lower(TextOf(r.name)))
    \/ Contains(qq, Lower(TextOf(NoneV)))       \* no city column in the rows modelled

Sel(idx, Keep(_)) == SelectSeq(idx, Keep)

\* A, lines 117-121: mask and filtered = df[mask]
FilteredA(d, c) ==
    Sel(Indices(d), LAMBDA i : /\ InValueRange(d[i].val.v, c)
                               /\ (c.q # <<>> => MatchA(d[i], c.q)))

\* order_value_num.fillna(0)
FillNa0(r) == IF r.val = NoneV THEN 0 ELSE r.val.v

\* B, apply_filters, lines 224-241
ApplyFiltersB(d, c) ==
    LET o1 == Sel(Indices(d), LAMBDA i : InValueRange(FillNa0(d[i]), c))
        o2 == IF StatusOptions(d) # {} /\ c.status_sel # {}
              THEN Sel(o1, LAMBDA i : KeepStatus(d[i], c.status_sel))
              ELSE o1
        o3 == IF c.date_range.t = "range" /\ (\E k \in 1..Len(o2) : d[o2[k]].date # NoneV)
              THEN Sel(o2, LAMBDA i : KeepDate(d[i], c.date_range))
              ELSE o2
        o4 == IF c.q # <<>> THEN Sel(o3, LAMBDA i : MatchB(d[i], c.q)) ELSE o3
    IN o4

-----------------------------------------------------------------------------
(* SpecFilter: one table, the render passes over it *)

Page(k, at, total, rows) == [kind |-> k, at |-> at, total |-> total, rows |-> rows]

InitFilter ==
    /\ variant \in Variants
    /\ pc = "built"
    /\ df \in Tables(variant)
    /\ controls = Unset
    /\ fdf = <<>>
    /\ page = Unset
    /\ FetchIdle /\ ParseIdle /\ SelectIdle

\* A, lines 102-104: st.warning(...); st.stop()
StopOnEmptyTable ==
    /\ variant = "A" /\ pc = "built" /\ df = <<>>
    /\ page' = Page("warning_no_mappable_rows", "line 104", 0, 0)
    /\ pc' = "done"
    /\ UNCHANGED <<variant, df, controls, fdf>>
    /\ UNCHANGED <<fetchVars, parseVars, selectVars>>

\* The first pass draws the widgets with their defaults (A lines 107-115,
\* B lines 197-221).  Two library calls are not decided by this code:
\* st.slider with lo = hi (A), and min() over dates mixed with NaT (B);
\* either raises or goes on.
MayRaiseInControls(v, d) ==
    \/ v = "A" /\ SliderLoA(d) = SliderHiA(d)
    \/ v = "B" /\ Dated(d) # {} /\ Dated(d) # 1..Len(d)

ShowControls ==
    /\ pc = "built"
    /\ variant = "A" => df # <<>>
    /\ \E raises \in BOOLEAN :
         /\ raises => MayRaiseInControls(variant, df)
         /\ IF raises
            THEN /\ page' = Page("exception", "controls", IF variant = "B" THEN Len(df) ELSE 0, 0)
                 /\ pc' = "done"
                 /\ UNCHANGED controls
            ELSE /\ controls' = DefaultControls(variant, df)
                 /\ pc' = "controls"
                 /\ UNCHANGED page
    /\ UNCHANGED <<variant, df, fdf>>
    /\ UNCHANGED <<fetchVars, parseVars, selectVars>>

\* A lines 117-121, B line 243
ApplyFilters ==
    /\ pc = "controls"
    /\ fdf' = IF variant = "A" THEN FilteredA(df, controls) ELSE ApplyFiltersB(df, controls)
    /\ pc' = "filtered"
    /\ UNCHANGED <<variant, df, controls, page>>
    /\ UNCHANGED <<fetchVars, parseVars, selectVars>>

\* A line 124: folium.Map(location=[mean, mean]); the mean of no rows is
\* NaN, which folium refuses with ValueError.
\* B lines 246-289: the info box or the map, then the data frame.
RenderMap ==
    /\ pc = "filtered"
    /\ page' = IF variant = "A"
               THEN IF fdf = <<>>
                    THEN Page("exception", "folium.Map", 0, 0)
                    ELSE Page("map", "end", 0, Len(fdf))
               ELSE IF fdf = <<>> \/ \A k \in 1..Len(fdf) : ~df[fdf[k]].hasLat
                    THEN Page("info_no_valid_latlng", "end", Len(df), Len(fdf))
                    ELSE Page("map", "end", Len(df), Len(fdf))
    /\ pc' = "done"
    /\ UNCHANGED <<variant, df, controls, fdf>>
    /\ UNCHANGED <<fetchVars, parseVars, selectVars>>

\* The user moves one widget; the script reruns with the value set.
UserSets ==
    /\ pc = "done" /\ controls # Unset
    /\ \E c \in Moves(variant, df, controls) :
         /\ Cardinality(Moved(variant, df, c)) <= MaxMoved
         /\ controls' = c
    /\ pc' = "controls"
    /\ page' = Unset
    /\ fdf' = <<>>
    /\ UNCHANGED <<variant, df>>
    /\ UNCHANGED <<fetchVars, parseVars, selectVars>>

NextFilter == StopOnEmptyTable \/ ShowControls \/ ApplyFilters \/ RenderMap \/ UserSets

SpecFilter == InitFilter /\ [][NextFilter]_vars

-----------------------------------------------------------------------------
(* Claims about the filters and the render pass *)

\* The numeric order value of a row, 0 when it has none.
ValueOrZero(r) == IF r.val = NoneV THEN 0 ELSE r.val.v

\* The rows left after the value test alone.
InRangeRows == {i \in 1..Len(df) : controls.vmin <= ValueOrZero(df[i]) /\ ValueOrZero(df[i]) <= controls.vmax}

\* No predicate other than the value range is in force.
OnlyValueInForce ==
    /\ controls.q = <<>>
    /\ variant = "B" => /\ controls.status_sel = {} \/ StatusOptions(df) = {}
                        /\ controls.date_range.t # "range"

\* C6: the filtered table is a subsequence of the table (no row twice, the
\* table's order, no foreign row); a row is kept only if its value (0 when
\* absent) lies in [vmin, vmax], both bounds included; and when only the
\* value range is in force exactly the rows in range are kept, a row without
\* a value exactly when 0 lies in the range.
C6_FilterIsStableAndInRange ==
    pc = "filtered" =>
        /\ \A k \in 1..Len(fdf) : fdf[k] \in 1..Len(df)
        /\ \A k \in 1..(Len(fdf) - 1) : fdf[k] < fdf[k + 1]
        /\ \A k \in 1..Len(fdf) : fdf[k] \in InRangeRows
        /\ OnlyValueInForce => {fdf[k] : k \in 1..Len(fdf)} = InRangeRows

\* C6 witness: values [10, 50, 200] under the range [20, 100] keep exactly
\* the row with value 50.
C6_RangeKeepsTheMiddleRow ==
    /\ pc = "filtered" /\ Len(df) = 3
    /\ <<df[1].val, df[2].val, df[3].val>> = <<Num(20), Num(100), Num(400)>>
    /\ controls.vmin = 40 /\ controls.vmax = 200
    /\ fdf = <<2>>

StatusConfigured == variant = "B" /\ StatusOptions(df) # {}

\* The rows the value, date and query predicates let through, the status
\* predicate left out.
PassesWithoutStatus ==
    LET inRange == InRangeRows
        dateInForce == controls.date_range.t = "range" /\ \E i \in inRange : df[i].date # NoneV
    IN {i \in inRange :
          /\ dateInForce => /\ df[i].date # NoneV
                            /\ controls.date_range.start <= df[i].date.v
                            /\ df[i].date.v <= controls.date_range.end
          /\ controls.q # <<>> => MatchB(df[i], controls.q)}

\* C7 as stated: with a status filter configured every filtered row has a
\* selected status, so zero selected statuses leave an empty table.
C7_ConfiguredStatusFilterAlwaysApplies ==
    (pc = "filtered" /\ StatusConfigured) =>
        \A k \in 1..Len(fdf) : df[fdf[k]].status \in controls.status_sel

\* C7 amended: with a status filter configured and at least one status
\* selected every filtered row has a selected status; with zero statuses
\* selected, or with no status column resolved, the status predicate removes
\* no row.
C7_StatusFilterAppliesWhenSelected ==
    (pc = "filtered" /\ variant = "B") =>
        IF StatusOptions(df) # {} /\ controls.status_sel # {}
        THEN \A k \in 1..Len(fdf) : df[fdf[k]].status \in controls.status_sel
        ELSE {fdf[k] : k \in 1..Len(fdf)} = PassesWithoutStatus

\* C7 witness: some statuses are selected, not all, and a row in range was
\* removed for its status while another was kept.
C7_StatusRemovedARow ==
    /\ pc = "filtered" /\ StatusConfigured
    /\ controls.status_sel # {} /\ controls.status_sel # StatusOptions(df)
    /\ fdf # <<>>
    /\ \E i \in PassesWithoutStatus :
          /\ df[i].status # NoneV /\ df[i].status \notin controls.status_sel
          /\ \A k \in 1..Len(fdf) : fdf[k] # i

\* What a run over an empty table displays.
EmptyFetchPage(v) ==
    IF v = "A" THEN Page("warning_no_mappable_rows", "line 104", 0, 0)
    ELSE Page("info_no_valid_latlng", "end", 0, 0)

\* C9: a run that fetched nothing and a run whose filter kept nothing of
\* N >= 1 rows end in two different displayed states, neither a failure
\* (tables whose widgets may already fail to draw are left aside).
C9_EmptyStatesDifferAndAreNoErrors ==
    pc = "done" =>
        /\ df = <<>> => page = EmptyFetchPage(variant)
        /\ (df # <<>> /\ fdf = <<>> /\ ~MayRaiseInControls(variant, df)) =>
              page.kind # "exception" /\ page # EmptyFetchPage(variant)

\* C10: with the widgets at their defaults the filtered table is the table
\* (tables whose widgets may already fail to draw are left aside).
C10_DefaultsKeepEveryRow ==
    (/\ pc = "filtered"
     /\ controls = DefaultControls(variant, df)
     /\ ~MayRaiseInControls(variant, df)) => fdf = Indices(df)

-----------------------------------------------------------------------------
(* The details panel of variant A.  Coordinates are counted in millionths   *)
(* of a degree, so rounding to 5 decimals is rounding to a multiple of 10.  *)

Lats == {40123450, 40123454, 40123456}
Lngs == {0 - 73000000, 0 - 73000004, 0 - 72999990}
NoClick == [t |-> "none"]
ClickAt(la, ln) == [t |-> "click", lat |-> la, lng |-> ln]
Marker(la, ln) == [lat |-> la, lng |-> ln]
Markers == {Marker(la, ln) : la \in Lats, ln \in Lngs}

Abs(x) == IF x >= 0 THEN x ELSE 0 - x

\* round(x, 5) / Series.round(5); no value modelled lies on a half.
Round5(x) == IF x >= 0 THEN ((x + 5) \div 10) * 10 ELSE 0 - (((0 - x + 5) \div 10) * 10)

\* line 147: filtered["dist"]
Dist(r, c) == Abs(Round5(r.lat) - Round5(c.lat)) + Abs(Round5(r.lng) - Round5(c.lng))

\* A scan that lets a later row of equal distance win.
RECURSIVE NSmallestLast(_, _, _)
NSmallestLast(dists, k, best) ==
    IF k > Len(dists) THEN best
    ELSE NSmallestLast(dists, k + 1, IF dists[k] <= dists[best] THEN k ELSE best)

RECURSIVE ScanSmallest(_, _, _)
ScanSmallest(dists, k, best) ==
    IF k > Len(dists) THEN best
    ELSE ScanSmallest(dists, k + 1, IF dists[k] < dists[best] THEN k ELSE best)

\* line 148: nsmallest(1, "dist"), keep="first": the position of the first
\* row of least distance.
NSmallest1(dists, k, best) == ScanSmallest(dists, k, best)

WithDist(t, c) == [i \in 1..Len(t) |-> [lat |-> t[i].lat, lng |-> t[i].lng, dist |-> Dist(t[i], c)]]
DropDist(r) == [lat |-> r.lat, lng |-> r.lng]

InitSelect ==
    /\ variant = "A"
    /\ pc = "map"
    /\ filtered \in UNION {[1..n -> Markers] : n \in 1..MaxRows}
    /\ click = NoClick
    /\ selected = NoneV
    /\ FetchIdle /\ ParseIdle /\ FilterIdle

\* lines 143-159
SelectOrder ==
    /\ pc = "map"
    /\ IF click = NoClick
       THEN selected' = NoneV /\ UNCHANGED filtered
       ELSE LET withDist == WithDist(filtered, click)
                i == NSmallest1([k \in 1..Len(withDist) |-> withDist[k].dist], 2, 1)
            IN /\ filtered' = withDist
               /\ selected' = [t |-> "row", index |-> i, row |-> DropDist(withDist[i])]
    /\ pc' = "selected"
    /\ UNCHANGED <<variant, click>>
    /\ UNCHANGED <<fetchVars, parseVars, filterVars>>

\* The user clicks a marker: st_folium reports it and the script reruns,
\* rebuilding filtered.
ClickMarker ==
    /\ pc = "selected"
    /\ \E la \in Lats, ln \in Lngs : click' = ClickAt(la, ln)
    /\ filtered' = [i \in 1..Len(filtered) |-> DropDist(filtered[i])]
    /\ selected' = NoneV
    /\ pc' = "map"
    /\ UNCHANGED variant
    /\ UNCHANGED <<fetchVars, parseVars, filterVars>>

NextSelect == SelectOrder \/ ClickMarker

SpecSelect == InitSelect /\ [][NextSelect]_vars

-----------------------------------------------------------------------------
(* Claims about the details panel *)

\* x to 5 decimals: the multiple of 10 nearest to x.
Nearest5(x) == CHOOSE m \in (x - 5)..(x + 5) : m % 10 = 0 /\ Abs(x - m) < 5

L1(r, c) == Abs(Nearest5(r.lat) - Nearest5(c.lat)) + Abs(Nearest5(r.lng) - Nearest5(c.lng))

\* C8: for a click and a non-empty filtered table the lookup selects exactly
\* one row, a row of the filtered table of least L1 distance (coordinates
\* to 5 decimals) from the click, the first such row in table order, and it
\* leaves the rows of the filtered table and their order as they were.
C8_SelectsFirstNearestRow ==
    [][(pc = "map" /\ pc' = "selected" /\ click # NoClick) =>
         LET i == selected'.index IN
         /\ selected'.t = "row"
         /\ i \in 1..Len(filtered)
         /\ selected'.row = filtered[i]
         /\ \A j \in 1..Len(filtered) : L1(filtered[i], click) <= L1(filtered[j], click)
         /\ \A j \in 1..(i - 1) : L1(filtered[j], click) > L1(filtered[i], click)
         /\ Len(filtered') = Len(filtered)
         /\ \A j \in 1..Len(filtered) : DropDist(filtered'[j]) = filtered[j]]_vars

\* C8 witness: two rows at the same rounded coordinates as the click, after
\* a farther one; the first of the two is selected.
C8_TieGoesToTheFirstRow ==
    /\ pc = "selected" /\ click # NoClick /\ Len(filtered) = 3
    /\ filtered[1].dist > 0 /\ filtered[2].dist = 0 /\ filtered[3].dist = 0
    /\ filtered[2].lat # filtered[3].lat
    /\ selected.index = 2

=============================================================================
